---- MODULE Spec2Model ----
(***************************************************************************)
(* Model of src/structure_app.py: a Streamlit script that keeps a member   *)
(* list and a load list in the session, and on every rerun of the script   *)
(* handles at most one widget event and then, when the member list is not  *)
(* empty, builds an anastruct system from the session data (splitting a    *)
(* member at its first point load), adds supports, applies distributed     *)
(* loads and calls solve.                                                  *)
(*                                                                         *)
(* One action of the model is one rerun of the script: the widget event    *)
(* followed by the whole analysis block.  The anastruct object is modelled *)
(* by the calls the script makes on it (elements, point loads, q loads,    *)
(* supports, solve) together with the two library facts the script relies  *)
(* on: element ids are sequential and a vertex is looked up by coordinate  *)
(* before a new node is created.  What solve computes is not modelled:     *)
(* ss.solved records that the script called it.  Whether add_element       *)
(* accepts two coincident vertices is the library's affair, so both        *)
(* outcomes are explored: it returns, or it raises and the rerun ends      *)
(* there (the builder runs outside the script's try block).                *)
(*                                                                         *)
(* Coordinates of the node table are integers in feet.  Solver vertices    *)
(* are fixed-point numbers in units of 1/Scale ft, so that the linear      *)
(* interpolation of the split point is exact for the member lengths of     *)
(* the model (0, 10 and 13 ft).  Section properties (E, I, A) are passed   *)
(* through to add_element unchanged and are left out.                      *)
(***************************************************************************)
EXTENDS Integers, Sequences, FiniteSets, TLC

\* ------------------------------------------------------------------ bounds
MaxMembers == 2
MaxLoads == 2

\* Fixed-point unit of the solver's vertices: a multiple of every non-zero
\* member length of the model.
Scale == 10 * 13

\* Ids a row of the node table may carry, in row order.
NodeOrder == <<1, 2, 3>>
NodeIds == {1, 2, 3}

\* Edits of the node table the model explores: a row is set (or added) to a
\* coordinate, or a row is deleted.
RowEdits == { <<2, <<0, 0>>>>, <<2, <<10, 0>>>>, <<3, <<5, 12>>>> }
RowDeletes == {3}

\* Add Load inputs: <<type, magnitude, location>>.
LoadInputs ==
    { <<"point", -1, 0>>, <<"point", -2, 8>>, <<"point", -1, 10>>,
      <<"point", -3, 12>>, <<"distributed", -1, 0>> }

\* Add Member inputs: <<start node, end node>>.
MemberInputs == { <<1, 2>>, <<1, 3>>, <<3, 2>>, <<1, 1>> }

\* Support checkboxes the model toggles: <<node id, support type>>.
SupportToggles == { <<1, "fixed">>, <<1, "pinned">>, <<1, "roller">> }

VARIABLES
    elements,       \* st.session_state["elements"]
    nodes,          \* st.session_state["nodes"]
    loads,          \* st.session_state["loads"]
    edited_nodes,   \* value of the node data editor
    checked,        \* support checkbox state per node id
    view,           \* column 2: "info", "analysis" or "exception"
    ss,             \* the SystemElements object of the last rerun
    member_map,     \* user member id -> solver element ids
    current_ana_id, \* the builder's id counter after the loop
    errors          \* member ids reported by st.error in the builder

vars == <<elements, nodes, loads, edited_nodes, checked, view, ss,
          member_map, current_ana_id, errors>>

\* ------------------------------------------------------------ session init
InitialNodes == (1 :> <<0, 0>>) @@ (2 :> <<10, 0>>)

\* ------------------------------------------------------- solver (anastruct)
EmptySS ==
    [nodes |-> <<>>, elements |-> <<>>, point_loads |-> <<>>,
     q_loads |-> <<>>, supports |-> <<>>, solved |-> FALSE]

\* Node id at a vertex, 0 when there is none (None in the script).
find_node_id(s, location) ==
    IF \E k \in 1..Len(s.nodes) : s.nodes[k] = location
    THEN CHOOSE k \in 1..Len(s.nodes) : s.nodes[k] = location
    ELSE 0

\* Look the vertex up, create the node when it is new.
WithNode(s, location) ==
    IF find_node_id(s, location) # 0 THEN s
    ELSE [s EXCEPT !.nodes = Append(@, location)]

\* The new element gets the next sequential id, Len(elements) + 1.
add_element(s, p1, p2) ==
    LET s1 == WithNode(s, p1)
        s2 == WithNode(s1, p2)
    IN  [s2 EXCEPT !.elements =
            Append(@, [node_id1 |-> find_node_id(s2, p1),
                       node_id2 |-> find_node_id(s2, p2)])]

point_load(s, node_id, Fy) ==
    [s EXCEPT !.point_loads = Append(@, [node_id |-> node_id, Fy |-> Fy])]

q_load(s, element_id, q) ==
    [s EXCEPT !.q_loads = Append(@, [element_id |-> element_id, q |-> q])]

add_support(s, node_id, stype) ==
    [s EXCEPT !.supports = Append(@, [node_id |-> node_id, stype |-> stype])]

solve(s) == [s EXCEPT !.solved = TRUE]

\* ------------------------------------------------------------ the builder
\* np.sqrt on the squared lengths of the model, which are perfect squares.
Sqrt(n) == CHOOSE r \in 0..n : r * r <= n /\ (r + 1) * (r + 1) > n

\* L = np.sqrt((x2-x1)**2 + (y2-y1)**2), in feet.
Length(p1, p2) ==
    Sqrt((p2[1] - p1[1]) * (p2[1] - p1[1]) + (p2[2] - p1[2]) * (p2[2] - p1[2]))

\* A node-table coordinate as a solver vertex.
Vertex(p) == <<Scale * p[1], Scale * p[2]>>

\* Mutant of SplitVertex: the distance is measured from the end node.
SplitVertex_FromEnd(p1, p2, d, L) ==
    << Scale * p2[1] + (Scale * d * (p1[1] - p2[1])) \div L,
       Scale * p2[2] + (Scale * d * (p1[2] - p2[2])) \div L >>

\* ratio = d / L; x_mid = x1 + ratio * (x2 - x1); y_mid likewise.
SplitVertex(p1, p2, d, L) ==
    << Scale * p1[1] + (Scale * d * (p2[1] - p1[1])) \div L,
       Scale * p1[2] + (Scale * d * (p2[2] - p1[2])) \div L >>

\* Mutant of member_point_loads: the point loads of the member, last first.
member_point_loads_Reversed(lds, user_id) ==
    LET sel == SelectSeq(lds, LAMBDA l : l.element_id = user_id /\ l.type = "point")
    IN  [k \in 1..Len(sel) |-> sel[Len(sel) + 1 - k]]

member_point_loads(lds, user_id) ==
    SelectSeq(lds, LAMBDA l : l.element_id = user_id /\ l.type = "point")

\* No point loads: the member becomes one element.
AddUnsplit(st, user_id, p1, p2) ==
    [st EXCEPT !.ss = add_element(@, Vertex(p1), Vertex(p2)),
               !.member_map = (user_id :> <<st.current_ana_id>>) @@ @,
               !.current_ana_id = @ + 1]

\* Mutant of AddFallback: the id counter is not advanced.
AddFallback_NoCount(st, user_id, p1, p2) ==
    [st EXCEPT !.ss = add_element(@, Vertex(p1), Vertex(p2)),
               !.member_map = (user_id :> <<st.current_ana_id>>) @@ @,
               !.errors = Append(@, user_id)]

\* First point load at d <= 0 or d >= L: one element, the load is not applied,
\* an error message is shown and the run goes on.
AddFallback(st, user_id, p1, p2) ==
    [st EXCEPT !.ss = add_element(@, Vertex(p1), Vertex(p2)),
               !.member_map = (user_id :> <<st.current_ana_id>>) @@ @,
               !.current_ana_id = @ + 1,
               !.errors = Append(@, user_id)]

\* First point load at 0 < d < L: two segments, the load on the node between.
AddSplit(st, user_id, p1, p2, pload, L) ==
    LET mid == SplitVertex(p1, p2, pload.location, L)
        s1 == add_element(st.ss, Vertex(p1), mid)
        seg1_id == st.current_ana_id
        s2 == add_element(s1, mid, Vertex(p2))
        seg2_id == st.current_ana_id + 1
        split_node_id == s2.elements[seg1_id].node_id2
    IN  [st EXCEPT !.ss = point_load(s2, split_node_id, pload.value),
                   !.member_map = (user_id :> <<seg1_id, seg2_id>>) @@ @,
                   !.current_ana_id = seg2_id + 1]

\* One pass of the loop body for member i (user_id = i).  zero_raises: whether
\* the library raises on an element of length 0.
BuildMember(st, els, lds, node_map, i, zero_raises) ==
    LET el == els[i]
        user_id == i
    IN  IF el.start \in DOMAIN node_map /\ el.end \in DOMAIN node_map
        THEN
            LET p1 == node_map[el.start]
                p2 == node_map[el.end]
                L == Length(p1, p2)
                mpl == member_point_loads(lds, user_id)
            IN  IF L = 0 /\ zero_raises
                THEN [st EXCEPT !.raised = TRUE]
                ELSE IF mpl = <<>>
                THEN AddUnsplit(st, user_id, p1, p2)
                ELSE
                    LET pload == mpl[1]
                        d == pload.location
                    IN  IF d <= 0 \/ d >= L
                        THEN AddFallback(st, user_id, p1, p2)
                        ELSE AddSplit(st, user_id, p1, p2, pload, L)
        ELSE st

RECURSIVE Builder(_, _, _, _, _, _)
Builder(st, els, lds, node_map, i, zero_raises) ==
    IF i > Len(els) \/ st.raised THEN st
    ELSE Builder(BuildMember(st, els, lds, node_map, i, zero_raises),
                 els, lds, node_map, i + 1, zero_raises)

\* ---------------------------------------------------------------- supports
node_ids(en) == SelectSeq(NodeOrder, LAMBDA n : n \in DOMAIN en)

\* The if / elif chain over the three checkboxes of a node leaves at most one
\* support type per node.
support_data(en, chk) ==
    LET ids == SelectSeq(node_ids(en), LAMBDA n : chk[n] # "none")
    IN  [k \in 1..Len(ids) |-> [nid |-> ids[k], stype |-> chk[ids[k]]]]

RECURSIVE AddSupports(_, _, _, _)
AddSupports(s, sd, node_map, k) ==
    IF k > Len(sd) THEN s
    ELSE
        LET found_node == find_node_id(s, Vertex(node_map[sd[k].nid]))
            s1 == IF found_node # 0
                  THEN add_support(s, found_node, sd[k].stype)
                  ELSE s
        IN  AddSupports(s1, sd, node_map, k + 1)

\* ------------------------------------------------------- distributed loads
RECURSIVE QLoadSegments(_, _, _, _)
QLoadSegments(s, target_segments, q, k) ==
    IF k > Len(target_segments) THEN s
    ELSE QLoadSegments(q_load(s, target_segments[k], q), target_segments, q, k + 1)

\* Mutant of TargetSegments: only the first segment of the member.
TargetSegments_FirstOnly(mm, element_id) ==
    IF element_id \in DOMAIN mm THEN <<mm[element_id][1]>> ELSE <<>>

\* member_map.get(l['element_id'], [])
TargetSegments(mm, element_id) ==
    IF element_id \in DOMAIN mm THEN mm[element_id] ELSE <<>>

RECURSIVE ApplyDistributed(_, _, _, _)
ApplyDistributed(s, lds, mm, j) ==
    IF j > Len(lds) THEN s
    ELSE
        LET l == lds[j]
            s1 == IF l.type = "distributed"
                  THEN QLoadSegments(s, TargetSegments(mm, l.element_id), l.value, 1)
                  ELSE s
        IN  ApplyDistributed(s1, lds, mm, j + 1)

\* ------------------------------------------------------ the analysis block
\* Mutant of AnalysisBlock: the edited node table is written back to the
\* session.
AnalysisBlock_WritesNodes(sess, en, chk, zero_raises) ==
    [session |-> [sess EXCEPT !.nodes = en],
     view |-> IF sess.elements = <<>> THEN "info" ELSE "analysis",
     ss |-> EmptySS, member_map |-> <<>>, current_ana_id |-> 1, errors |-> <<>>]

\* Column 2 of the script.  sess is the session as the widget event left it;
\* the block reads it and hands it back as it leaves it.
AnalysisBlock(sess, en, chk, zero_raises) ==
    IF sess.elements = <<>>
    THEN [session |-> sess, view |-> "info", ss |-> EmptySS,
          member_map |-> <<>>, current_ana_id |-> 1, errors |-> <<>>]
    ELSE
        LET node_map == en
            st0 == [ss |-> EmptySS, member_map |-> <<>>,
                    current_ana_id |-> 1, errors |-> <<>>, raised |-> FALSE]
            st1 == Builder(st0, sess.elements, sess.loads, node_map, 1, zero_raises)
            s2 == AddSupports(st1.ss, support_data(en, chk), node_map, 1)
            s3 == ApplyDistributed(s2, sess.loads, st1.member_map, 1)
        IN  [session |-> sess,
             view |-> IF st1.raised THEN "exception" ELSE "analysis",
             ss |-> IF st1.raised THEN st1.ss ELSE solve(s3),
             member_map |-> st1.member_map,
             current_ana_id |-> st1.current_ana_id, errors |-> st1.errors]

\* The outcomes of add_element the rerun may meet: both, when some member the
\* builder reaches has length 0.
ZeroLengthOutcomes(sess, en) ==
    IF \E i \in 1..Len(sess.elements) :
          /\ sess.elements[i].start \in DOMAIN en
          /\ sess.elements[i].end \in DOMAIN en
          /\ en[sess.elements[i].start] = en[sess.elements[i].end]
    THEN {FALSE, TRUE}
    ELSE {FALSE}

\* ------------------------------------------------------------------ reruns
Session == [elements |-> elements, nodes |-> nodes, loads |-> loads]

\* The rest of a rerun after the widget event: the analysis block.
Rerun(sess, en, chk) ==
    \E zero_raises \in ZeroLengthOutcomes(sess, en) :
    \E r \in {AnalysisBlock(sess, en, chk, zero_raises)} :
        /\ elements' = r.session.elements
        /\ nodes' = r.session.nodes
        /\ loads' = r.session.loads
        /\ edited_nodes' = en
        /\ checked' = chk
        /\ view' = r.view
        /\ ss' = r.ss
        /\ member_map' = r.member_map
        /\ current_ana_id' = r.current_ana_id
        /\ errors' = r.errors

Init ==
    /\ elements = <<>>
    /\ nodes = InitialNodes
    /\ loads = <<>>
    /\ edited_nodes = InitialNodes
    /\ checked = [n \in NodeIds |-> "none"]
    /\ view = "info"
    /\ ss = EmptySS
    /\ member_map = <<>>
    /\ current_ana_id = 1
    /\ errors = <<>>

\* The node data editor: a row is set or added.
EditNode(n, p) ==
    /\ <<n, p>> \in RowEdits
    /\ Rerun(Session, (n :> p) @@ edited_nodes, checked)

\* The node data editor: a row is deleted; its checkboxes go with it.
DeleteNode(n) ==
    /\ n \in RowDeletes
    /\ n \in DOMAIN edited_nodes
    /\ Rerun(Session,
             [k \in DOMAIN edited_nodes \ {n} |-> edited_nodes[k]],
             [checked EXCEPT ![n] = "none"])

\* Form "add_element": both selectboxes offer the ids of the node table.
AddMember(start_node, end_node) ==
    /\ <<start_node, end_node>> \in MemberInputs
    /\ start_node \in DOMAIN edited_nodes
    /\ end_node \in DOMAIN edited_nodes
    /\ Len(elements) < MaxMembers
    /\ Rerun([Session EXCEPT !.elements =
                 IF start_node # end_node
                 THEN Append(@, [start |-> start_node, end |-> end_node])
                 ELSE @],
             edited_nodes, checked)

\* The button is shown only while the member list is not empty.
ClearMembers ==
    /\ elements # <<>>
    /\ Rerun([Session EXCEPT !.elements = <<>>], edited_nodes, checked)

\* Form "add_load": the member is picked among the current members.
AddLoad(selected_elem_idx, in) ==
    /\ selected_elem_idx \in 0..(Len(elements) - 1)
    /\ in \in LoadInputs
    /\ Len(loads) < MaxLoads
    /\ Rerun([Session EXCEPT !.loads =
                 Append(@, [type |-> in[1],
                            element_id |-> selected_elem_idx + 1,
                            value |-> in[2],
                            location |-> in[3]])],
             edited_nodes, checked)

ClearLoads ==
    /\ loads # <<>>
    /\ Rerun([Session EXCEPT !.loads = <<>>], edited_nodes, checked)

\* A support checkbox is clicked.  "Pin" is drawn only while "Fixed" is off,
\* "Roll" only while both are off.
ToggleSupport(n, stype) ==
    /\ <<n, stype>> \in SupportToggles
    /\ n \in DOMAIN edited_nodes
    /\ \/ stype = "fixed"
       \/ stype = "pinned" /\ checked[n] # "fixed"
       \/ stype = "roller" /\ checked[n] \notin {"fixed", "pinned"}
    /\ Rerun(Session, edited_nodes,
             [checked EXCEPT ![n] = IF @ = stype THEN "none" ELSE stype])

Next ==
    \/ \E e \in RowEdits : EditNode(e[1], e[2])
    \/ \E n \in RowDeletes : DeleteNode(n)
    \/ \E m \in MemberInputs : AddMember(m[1], m[2])
    \/ ClearMembers
    \/ \E i \in 0..(MaxMembers - 1), in \in LoadInputs : AddLoad(i, in)
    \/ ClearLoads
    \/ \E t \in SupportToggles : ToggleSupport(t[1], t[2])

Spec == Init /\ [][Next]_vars

\* ------------------------------------------------- vocabulary of the claims
Members == 1..Len(elements)

Resolved(m) ==
    /\ elements[m].start \in DOMAIN edited_nodes
    /\ elements[m].end \in DOMAIN edited_nodes

StartPoint(m) == edited_nodes[elements[m].start]
EndPoint(m) == edited_nodes[elements[m].end]
MemberLength(m) == Length(StartPoint(m), EndPoint(m))

PointLoadIdx(m) ==
    {j \in 1..Len(loads) : loads[j].type = "point" /\ loads[j].element_id = m}

DistributedIdx(m) ==
    {j \in 1..Len(loads) : loads[j].type = "distributed" /\ loads[j].element_id = m}

FirstPointLoad(m) ==
    loads[CHOOSE j \in PointLoadIdx(m) : \A k \in PointLoadIdx(m) : j <= k]

Interior(d, L) == 0 < d /\ d < L

\* The vertices a solver element runs between.
From(e) == ss.nodes[ss.elements[e].node_id1]
To(e) == ss.nodes[ss.elements[e].node_id2]

\* v = start + (d / L) (end - start) on member m, cross-multiplied.
AtDistance(v, m, d) ==
    /\ MemberLength(m) * (v[1] - Scale * StartPoint(m)[1])
         = Scale * d * (EndPoint(m)[1] - StartPoint(m)[1])
    /\ MemberLength(m) * (v[2] - Scale * StartPoint(m)[2])
         = Scale * d * (EndPoint(m)[2] - StartPoint(m)[2])

\* ss.point_load(node_id, Fy) was called.
Applied(node_id, Fy) ==
    \E c \in 1..Len(ss.point_loads) :
        ss.point_loads[c] = [node_id |-> node_id, Fy |-> Fy]

\* The elements of member m run from its start node to its end node, each
\* beginning at the node where the one before ends.
InGeometricOrder(m) ==
    LET ids == member_map[m]
    IN  /\ ids # <<>>
        /\ \A k \in 1..Len(ids) : ids[k] \in 1..Len(ss.elements)
        /\ From(ids[1]) = Vertex(StartPoint(m))
        /\ To(ids[Len(ids)]) = Vertex(EndPoint(m))
        /\ \A k \in 1..(Len(ids) - 1) :
              ss.elements[ids[k]].node_id2 = ss.elements[ids[k + 1]].node_id1

\* Members the builder splits: resolved, with a first point load inside.
SplitMembers ==
    {m \in Members : /\ Resolved(m)
                     /\ PointLoadIdx(m) # {}
                     /\ Interior(FirstPointLoad(m).location, MemberLength(m))}

\* Member m is cut in two at distance d and the node between carries Fy.
SplitOnceAt(m, d, Fy) ==
    /\ m \in DOMAIN member_map
    /\ Len(member_map[m]) = 2
    /\ InGeometricOrder(m)
    /\ AtDistance(To(member_map[m][1]), m, d)
    /\ Applied(ss.elements[member_map[m][1]].node_id2, Fy)

\* A structure that is well-formed apart from the entities in M: every other
\* member has both end nodes in the node table and a positive length, and a
\* fixed support was placed on a node of the structure.
SoundApartFrom(M) ==
    /\ \A m \in Members \ M : Resolved(m) /\ MemberLength(m) > 0
    /\ Members \ M # {}
    /\ \E c \in 1..Len(ss.supports) : ss.supports[c].stype = "fixed"

C2_EndLoadApplied ==
    view = "analysis" =>
        \A m \in Members :
            ( /\ Resolved(m)
              /\ MemberLength(m) > 0
              /\ Cardinality(PointLoadIdx(m)) = 1
              /\ FirstPointLoad(m).location \in {0, MemberLength(m)} )
            => /\ m \in DOMAIN member_map
               /\ Len(member_map[m]) = 1
               /\ Applied(IF FirstPointLoad(m).location = 0
                          THEN ss.elements[member_map[m][1]].node_id1
                          ELSE ss.elements[member_map[m][1]].node_id2,
                          FirstPointLoad(m).value)

\* ---------------------------------------------------------------------- C3
\* C3: a resolved member with exactly one point load, at an interior d, yields
\* exactly two elements, start node -> split point -> end node, the split
\* point at start + (d/L)(end - start), and the shared node carries the
\* load's magnitude; the solver receives one point load per split member.
C3_OneInteriorLoad ==
    view = "analysis" =>
        /\ \A m \in Members :
              ( /\ Resolved(m)
                /\ Cardinality(PointLoadIdx(m)) = 1
                /\ Interior(FirstPointLoad(m).location, MemberLength(m)) )
              => SplitOnceAt(m, FirstPointLoad(m).location, FirstPointLoad(m).value)
        /\ Len(ss.point_loads) = Cardinality(SplitMembers)

\* An inclined member with one interior point load has been split.
C3_Witness ==
    /\ view = "analysis"
    /\ \E m \in SplitMembers :
          /\ Cardinality(PointLoadIdx(m)) = 1
          /\ StartPoint(m)[2] # EndPoint(m)[2]
          /\ Len(member_map[m]) = 2

\* ---------------------------------------------------------------------- C4
\* The member whose list holds solver element e.
Owners(e) ==
    {m \in DOMAIN member_map :
        \E k \in 1..Len(member_map[m]) : member_map[m][k] = e}

QLoadCalls(e) ==
    {c \in 1..Len(ss.q_loads) : ss.q_loads[c].element_id = e}

\* C4: member_map lists the elements of each built member in geometric
\* order; every solver element belongs to exactly one member and receives one
\* q_load call per distributed load of that member, with that load's value,
\* and none on behalf of any other member.
C4_DistributedOnEverySegment ==
    view = "analysis" =>
        /\ DOMAIN member_map \subseteq Members
        /\ \A m \in DOMAIN member_map : InGeometricOrder(m)
        /\ \A e \in 1..Len(ss.elements) :
              /\ Cardinality(Owners(e)) = 1
              /\ \A m \in Owners(e) :
                    /\ Cardinality(QLoadCalls(e)) = Cardinality(DistributedIdx(m))
                    /\ \A c \in QLoadCalls(e) :
                          \E j \in DistributedIdx(m) :
                              loads[j].value = ss.q_loads[c].q
        /\ \A c \in 1..Len(ss.q_loads) :
              ss.q_loads[c].element_id \in 1..Len(ss.elements)

\* A split member carrying a distributed load, beside a second member.
C4_Witness ==
    /\ view = "analysis"
    /\ Len(elements) = 2
    /\ \E m \in DOMAIN member_map :
          /\ Len(member_map[m]) = 2
          /\ DistributedIdx(m) # {}
          /\ \A k \in 1..2 : QLoadCalls(member_map[m][k]) # {}
    /\ \E m \in DOMAIN member_map : DistributedIdx(m) = {}

\* ---------------------------------------------------------------------- C5
\* C5 as stated, on an otherwise well-formed and supported structure: when a
\* point load lies beyond the length of its host member, the run does not
\* reach solve.
C5_OutOfRangeLoadStopsRun ==
    ( /\ SoundApartFrom({})
      /\ \E m \in Members :
            \E j \in PointLoadIdx(m) : loads[j].location > MemberLength(m) )
    => ~ss.solved

\* ---------------------------------------------------------------------- C6
\* C6 as stated, on an otherwise well-formed and supported structure: when
\* the load list holds a load whose member id is not in the current member
\* list, the run does not reach solve.
C6_DanglingLoadStopsRun ==
    ( /\ SoundApartFrom({})
      /\ \E j \in 1..Len(loads) : loads[j].element_id \notin Members )
    => ~ss.solved

\* ---------------------------------------------------------------------- C7
\* C7, its part on missing nodes, on an otherwise well-formed and supported
\* structure: when an end node of a member is not in the node table, the run
\* fails before solve instead of skipping the member.
C7_MissingNodeStopsRun ==
    ( \E m \in Members : ~Resolved(m) /\ SoundApartFrom({m}) )
    => ~ss.solved

\* ---------------------------------------------------------------------- C9
\* C9: no rerun changes the session's node table; the member list changes
\* only as Add Member or Clear Members change it and the load list only as
\* Add Load or Clear Loads change it, so the analysis block, which runs in
\* every rerun, leaves all three as it found them.
C9_AnalysisLeavesSession ==
    [][ /\ nodes' = nodes
        /\ elements' # elements =>
              \/ elements' = <<>>
              \/ \E m \in MemberInputs :
                    elements' = Append(elements, [start |-> m[1], end |-> m[2]])
        /\ loads' # loads =>
              \/ loads' = <<>>
              \/ \E i \in 0..(Len(elements) - 1), in \in LoadInputs :
                    loads' = Append(loads, [type |-> in[1], element_id |-> i + 1,
                                            value |-> in[2], location |-> in[3]])
        /\ (elements' # elements) => (loads' = loads)
      ]_vars

\* An analysis that split a member and reported a load error has run, with
\* the edited node table differing from the session's.
C9_Witness ==
    /\ view = "analysis"
    /\ ss.solved
    /\ Len(ss.elements) > Len(elements)
    /\ errors # <<>>
    /\ edited_nodes # nodes

\* --------------------------------------------------------------------- C10
IdSet(m) == {member_map[m][k] : k \in 1..Len(member_map[m])}

\* C10: after the builder loop current_ana_id - 1 is the number of solver
\* elements; the id lists of member_map are non-empty, free of repeats,
\* pairwise disjoint and cover exactly 1..current_ana_id - 1; a member with a
\* missing end node has no entry and consumed no id.
C10_CounterInStep ==
    view = "analysis" =>
        /\ current_ana_id - 1 = Len(ss.elements)
        /\ \A m \in DOMAIN member_map :
              /\ member_map[m] # <<>>
              /\ Cardinality(IdSet(m)) = Len(member_map[m])
        /\ \A m, n \in DOMAIN member_map : m # n => IdSet(m) \cap IdSet(n) = {}
        /\ UNION {IdSet(m) : m \in DOMAIN member_map} = 1..(current_ana_id - 1)
        /\ DOMAIN member_map = {m \in Members : Resolved(m)}

\* A run that skipped the first member and split the second.
C10_Witness ==
    /\ view = "analysis"
    /\ Len(elements) = 2
    /\ ~Resolved(1)
    /\ 2 \in DOMAIN member_map
    /\ Len(member_map[2]) = 2
    /\ current_ana_id = 3

====
